---- MODULE Spec2Model ----
(***************************************************************************)
(* State-machine model of the risk-it-free mobile client: the auth         *)
(* context (hooks/useAuth.tsx), the index/login/profile screens and the    *)
(* screens that talk to the backend.  Every async handler is cut at its    *)
(* await points; one action is one run-to-completion continuation of the   *)
(* JavaScript event loop.                                                  *)
(***************************************************************************)
EXTENDS Integers, Sequences, FiniteSets, TLC

VARIABLES
  backendApiUrl,  \* config.backendApiUrl, the setting of config.ts
  route,          \* the route the router currently shows
  token,          \* AuthProvider state: token
  user,           \* AuthProvider state: user
  isLoading,      \* AuthProvider state: isLoading
  store,          \* SecureStore: [userToken, userData]
  loadPc,         \* loadToken: position
  loadTok,        \* loadToken: local storedToken
  loginPc,        \* handleLogin/signIn: position
  isSubmitting,   \* LoginScreen state: isSubmitting
  siArg,          \* signIn: argument username
  siData,         \* signIn: local data.access_token
  siUser,         \* signIn: local formattedUser
  siBefore,       \* token, user and store as they were when signIn was called
  siAlone,        \* no other operation has changed them since signIn was called
  soPc,           \* handleSignOut/signOut: position
  homeDeps,       \* HomeScreen: [token, user] the effect last ran for
  homeLoading,    \* HomeScreen state: isLoading
  fsN,            \* HomeScreen: fetchSpaces calls awaiting their response
  fpN,            \* HomeScreen: fetchPatients calls awaiting their response
  savePc,         \* HomeScreen.handleSavePatient: position
  saveCtx,        \* HomeScreen.handleSavePatient: token and user of its closure
  delPc,          \* HomeScreen.handleDeletePatient: position
  delCtx,         \* HomeScreen.handleDeletePatient: token and user of its closure
  modalVisible,   \* HomeScreen state: isPatientModalVisible
  sdId,           \* space screens: route parameter id
  sdDeps,         \* SpaceDetailsScreen: dependencies its effect last ran for
  sdLoading,      \* SpaceDetailsScreen state: loading
  sdRefreshing,   \* SpaceDetailsScreen state: refreshing
  sdSpace,        \* SpaceDetailsScreen state: space (identity of the object)
  sdSpaceN,       \* fetchSpaceDetails runs awaiting GET /space/{id}
  sdLogsN,        \* fetchSpaceDetails runs awaiting GET /space/logs/space/{id}
  sdPatN,         \* fetchSpaceDetails runs awaiting fetchPatients
  sdSavePc,       \* SpaceDetailsScreen.handleSaveSpace: position
  sdDelPc,        \* SpaceDetailsScreen.handleDeleteSpace: position
  sdEffectGets,   \* GET /space/{id} requests the effect has issued since mount
  slDeps,         \* SpaceDetailsScreen (space/log.tsx): [id, token] of its effect
  slLoading,      \* SpaceDetailsScreen (space/log.tsx) state: loading
  slPc,           \* SpaceDetailsScreen (space/log.tsx): fetchSpaceDetails position
  ldId,           \* LogDetailScreen: route parameter logId
  ldDeps,         \* LogDetailScreen: [logId, token] of its effect
  ldLoading,      \* LogDetailScreen state: loading
  ldPc,           \* LogDetailScreen: fetchLogDetails position
  chatUserData,   \* ChatScreen state: userData
  chatLoadPc,     \* ChatScreen: its loadToken effect, position
  chatLoading,    \* ChatScreen state: loading
  chatN,          \* ChatScreen: onSend calls awaiting their response
  msgNow,         \* chat messages appended by the last step
  messages,       \* ChatScreen state: messages, newest first
  messageHistory, \* ChatScreen state: messageHistory
  showSuggestions, \* ChatScreen state: showSuggestions
  chatReqs,       \* ChatScreen: the onSend calls awaiting their response
  chatSent,       \* ChatScreen: messages sent since mount
  chatFresh,      \* no message has been sent since startNewConversation
  chatLastHist,   \* history of the conversation's latest successful response
  chatDone,       \* exchanges of the conversation that have been answered
  capSpaceId,     \* CaptureScreen: route parameter spaceId
  imageUri,       \* CaptureScreen state: imageUri
  uploading,      \* CaptureScreen state: uploading
  capPc,          \* CaptureScreen.performUpload: position
  suPc,           \* handleSignUp/signUp: position
  suSubmitting,   \* SignUpScreen state: isSubmitting
  suAlertOpen,    \* SignUpScreen: the 'Success' alert is waiting for its OK
  suForm,         \* SignUpScreen state: the text fields as handleSignUp read them
  upPc,           \* handleSaveProfile/updateUserInfo: position
  upCtx,          \* updateUserInfo: user and token of its closure
  upUser,         \* updateUserInfo: local updatedUser
  profLoading,    \* ProfileScreen state: isLoading
  isEditing,      \* ProfileScreen state: isEditing
  profErrors,     \* ProfileScreen state: errors is non-empty
  sentNow,        \* requests handed to fetch by the last step
  alertNow,       \* Alert.alert messages raised by the last step
  respNow         \* the awaited result the last step consumed

vars == <<backendApiUrl, route, token, user, isLoading, store, loadPc,
          loadTok, loginPc, isSubmitting, siArg, siData, siUser, siBefore,
          siAlone, soPc, homeDeps, homeLoading, fsN, fpN, savePc, saveCtx,
          delPc, delCtx, modalVisible, sdId, sdDeps, sdLoading, sdRefreshing,
          sdSpace, sdSpaceN, sdLogsN, sdPatN, sdSavePc, sdDelPc, sdEffectGets,
          slDeps, slLoading, slPc, ldId, ldDeps, ldLoading, ldPc,
          chatUserData, chatLoadPc, chatLoading, chatN, msgNow,
          messages, messageHistory, showSuggestions, chatReqs, chatSent,
          chatFresh, chatLastHist, chatDone,
          capSpaceId, imageUri, uploading, capPc,
          suPc, suSubmitting, suAlertOpen, suForm,
          upPc, upCtx, upUser, profLoading, isEditing, profErrors,
          sentNow, alertNow, respNow>>

loginVars == <<loginPc, isSubmitting, siArg, siData, siUser>>
snapVars  == <<siBefore, siAlone>>

cells     == <<token, user, store>>
loadVars  == <<loadPc, loadTok>>
soVars    == <<soPc>>
homeVars  == <<homeDeps, homeLoading, fsN, fpN, savePc, saveCtx, delPc,
               delCtx, modalVisible>>
spaceVars == <<sdId, sdDeps, sdLoading, sdRefreshing, sdSpace, sdSpaceN,
               sdLogsN, sdPatN, sdSavePc, sdDelPc, sdEffectGets>>
logVars   == <<slDeps, slLoading, slPc, ldId, ldDeps, ldLoading, ldPc>>
convVars  == <<messages, messageHistory, showSuggestions, chatReqs, chatSent,
               chatFresh, chatLastHist, chatDone>>
chatVars  == <<chatUserData, chatLoadPc, chatLoading, chatN, msgNow, convVars>>
capVars   == <<capSpaceId, imageUri, uploading, capPc>>
signupVars == <<suPc, suSubmitting, suAlertOpen, suForm>>
profileVars == <<upPc, upCtx, upUser, profLoading, isEditing, profErrors>>
dataVars  == <<homeVars, spaceVars, logVars, chatVars, capVars>>
screenVars == <<dataVars, signupVars, profileVars>>
notHome   == <<spaceVars, logVars, chatVars, capVars, signupVars, profileVars>>
notSpace  == <<homeVars, chatVars, capVars, slDeps, slLoading, slPc, ldId,
               ldDeps, ldLoading, ldPc, signupVars, profileVars>>
notLog    == <<homeVars, chatVars, capVars, sdDeps, sdLoading, sdRefreshing,
               sdSpace, sdSpaceN, sdLogsN, sdPatN, sdSavePc, sdDelPc,
               sdEffectGets, signupVars, profileVars>>
notChat   == <<homeVars, spaceVars, logVars, capVars, signupVars, profileVars>>
notCap    == <<homeVars, spaceVars, logVars, chatVars, signupVars, profileVars>>
authVars  == <<cells, isLoading, loadVars, loginVars, snapVars, soVars>>

----------------------------------------------------------------------------
(* Values *)

\* null / undefined; every token, user and stored string is a tuple of strings.
NULL == <<>>

\* Strings typed into text fields, as character sequences.
Usernames == {<<>>, <<" ">>, <<"a">>, <<"b">>}
Passwords == {<<>>, <<"p">>}
Accounts  == {<<"a">>, <<"b">>}

\* Settings config.backendApiUrl may be given.
\* The literal URL of useAuth.tsx and tabs/index.tsx.
NgrokUrl == "https://2595-2603-8000-ba00-2aae-19d0-bb4a-f0eb-4b8f.ngrok-free.app"

\* Settings config.backendApiUrl may be given.
ConfigUrls == {NgrokUrl, "http://192.168.0.2:8000"}

\* Results of an awaited fetch followed by the body read the code performs.
FetchResults == {"ok", "ok_nojson", "non2xx", "non2xx_nojson", "neterr"}
Non2xx == {"non2xx", "non2xx_nojson"}

\* Results of an awaited SecureStore call.
StoreResults == {"ok", "throw"}

NoResp == [op |-> "none", res |-> "none"]

\* A step started by the user ("press") or by React running an effect.
Trigger(kind) == [op |-> kind, res |-> "none"]

RECURSIVE TrimLeft(_)
TrimLeft(s) == IF s # <<>> /\ Head(s) = " " THEN TrimLeft(Tail(s)) ELSE s

RECURSIVE TrimRight(_)
TrimRight(s) ==
  IF s # <<>> /\ s[Len(s)] = " " THEN TrimRight(SubSeq(s, 1, Len(s) - 1)) ELSE s

\* String.prototype.trim
Trim(s) == TrimRight(TrimLeft(s))

\* The access_token the backend issues for a login.
AccessToken(username) == <<"tok">> \o username

\* `Bearer ${t}` ; a null t is interpolated as the text "null".
Bearer(t) == <<"Bearer">> \o (IF t = NULL THEN <<"null">> ELSE t)

\* The body of GET /user/me for the bearer of an access token.
UserMe(tok) == <<"me", tok[2], "e1">>

\* signIn's formattedUser.
FormatUser(userData) == <<"user", userData[2], userData[3]>>

\* JSON.stringify / JSON.parse of a User.
JSONstringify(u) == <<"json", u[2], u[3]>>
JSONparse(s) == <<"user", s[2], s[3]>>

\* The session cells signIn is responsible for.
Snapshot(t, u, st) == <<t, u, st.userToken, st.userData>>
NoSnapshot == <<>>

Req(ep, base, auth) == [ep |-> ep, base |-> base, auth |-> auth]

----------------------------------------------------------------------------
(* Initial state: the app has just been launched.  SecureStore is empty or *)
(* holds the session an earlier run stored.                                *)

StoredSessions ==
  {[userToken |-> NULL, userData |-> NULL]} \cup
  {[userToken |-> AccessToken(a),
    userData |-> JSONstringify(FormatUser(UserMe(AccessToken(a))))] : a \in Accounts}

\* No effect has run yet.
NoDeps == <<"unset">>

InitHome ==
  /\ homeDeps = NoDeps
  /\ homeLoading = FALSE
  /\ fsN = 0
  /\ fpN = 0
  /\ savePc = "idle"
  /\ saveCtx = NULL
  /\ delPc = "idle"
  /\ delCtx = NULL
  /\ modalVisible = FALSE

InitSpace ==
  /\ sdId = NULL
  /\ sdDeps = NoDeps
  /\ sdLoading = TRUE
  /\ sdRefreshing = FALSE
  /\ sdSpace = NULL
  /\ sdSpaceN = 0
  /\ sdLogsN = 0
  /\ sdPatN = 0
  /\ sdSavePc = "idle"
  /\ sdDelPc = "idle"
  /\ sdEffectGets = 0

InitLog ==
  /\ slDeps = NoDeps
  /\ slLoading = TRUE
  /\ slPc = "idle"
  /\ ldId = NULL
  /\ ldDeps = NoDeps
  /\ ldLoading = TRUE
  /\ ldPc = "idle"

InitChat ==
  /\ chatUserData = NULL
  /\ chatLoadPc = "getUser"
  /\ chatLoading = TRUE
  /\ chatN = 0
  /\ msgNow = {}
  /\ messages = <<"welcome">>
  /\ messageHistory = <<>>
  /\ showSuggestions = TRUE
  /\ chatReqs = {}
  /\ chatSent = 0
  /\ chatFresh = FALSE
  /\ chatLastHist = <<>>
  /\ chatDone = {}

InitCapture ==
  /\ capSpaceId = NULL
  /\ imageUri = NULL
  /\ uploading = FALSE
  /\ capPc = "idle"

\* Every text field of the sign-up form starts as ''.
BlankForm ==
  [firstName |-> <<>>, lastName |-> <<>>, username |-> <<>>, email |-> <<>>,
   password |-> <<>>]

InitSignUp ==
  /\ suPc = "idle"
  /\ suSubmitting = FALSE
  /\ suAlertOpen = FALSE
  /\ suForm = BlankForm

InitProfile ==
  /\ upPc = "idle"
  /\ upCtx = NULL
  /\ upUser = NULL
  /\ profLoading = FALSE
  /\ isEditing = FALSE
  /\ profErrors = FALSE

InitAuth ==
  /\ InitSignUp
  /\ InitProfile
  /\ backendApiUrl \in ConfigUrls
  /\ token = NULL
  /\ user = NULL
  /\ isLoading = TRUE
  /\ store \in StoredSessions
  /\ loadPc = "getToken"
  /\ loadTok = NULL
  /\ loginPc = "idle"
  /\ isSubmitting = FALSE
  /\ siArg = NULL
  /\ siData = NULL
  /\ siUser = NULL
  /\ siBefore = NoSnapshot
  /\ siAlone = TRUE
  /\ soPc = "idle"
  /\ sentNow = {}
  /\ alertNow = {}
  /\ respNow = NoResp

\* The app is opened at its index route.
Init ==
  /\ InitAuth
  /\ route = "/"
  /\ InitHome
  /\ InitSpace
  /\ InitLog
  /\ InitChat
  /\ InitCapture

----------------------------------------------------------------------------
(* app/index.tsx: Index *)

\* A step of anything but signIn: it resets the record of the last signIn
\* call once that call is over, and notes a change of the session cells
\* made while a call is in progress.
OtherStep ==
  /\ siBefore' = IF loginPc = "idle" THEN NoSnapshot ELSE siBefore
  /\ siAlone' = (loginPc = "idle" \/ (siAlone /\ cells' = cells))

\* A step that sends no request, raises no alert and awaited nothing.
Quiet == sentNow' = {} /\ alertNow' = {} /\ respNow' = NoResp

Index ==
  /\ route = "/"
  /\ route' = "/(auth)/login"
  /\ Quiet
  /\ UNCHANGED <<backendApiUrl, cells, isLoading, loadVars, loginVars,
                 soVars, screenVars>>
  /\ OtherStep

----------------------------------------------------------------------------
(* hooks/useAuth.tsx: loadToken *)

loadToken_userToken(r) ==
  /\ loadPc = "getToken"
  /\ respNow' = [op |-> "getItem:userToken", res |-> r]
  /\ IF r = "ok"
       THEN /\ loadTok' = store.userToken
            /\ loadPc' = "getUser"
            /\ UNCHANGED isLoading
       ELSE /\ loadTok' = NULL
            /\ loadPc' = "done"
            /\ isLoading' = FALSE
  /\ sentNow' = {} /\ alertNow' = {}
  /\ UNCHANGED <<backendApiUrl, route, cells, loginVars, soVars, screenVars>>
  /\ OtherStep

loadToken_userData(r) ==
  /\ loadPc = "getUser"
  /\ respNow' = [op |-> "getItem:userData", res |-> r]
  /\ IF r = "ok" /\ loadTok # NULL /\ store.userData # NULL
       THEN /\ token' = loadTok
            /\ user' = JSONparse(store.userData)
       ELSE UNCHANGED <<token, user>>
  /\ loadTok' = NULL
  /\ loadPc' = "done"
  /\ isLoading' = FALSE
  /\ sentNow' = {} /\ alertNow' = {}
  /\ UNCHANGED <<backendApiUrl, route, store, loginVars, soVars, screenVars>>
  /\ OtherStep

----------------------------------------------------------------------------
(* app/(auth)/login.tsx: handleLogin, with hooks/useAuth.tsx: signIn *)

\* What follows `await signIn(...)` in handleLogin.
handleLogin_resume ==
  /\ route' = "/tabs"
  /\ isSubmitting' = FALSE
  /\ loginPc' = "idle"
  /\ siArg' = NULL
  /\ siData' = NULL
  /\ siUser' = NULL

\* signIn's catch and finally.
signIn_catch ==
  /\ alertNow' = {"Failed to sign in. Please check your credentials."}
  /\ isLoading' = FALSE
  /\ sentNow' = {}
  /\ UNCHANGED <<token, user>>
  /\ handleLogin_resume

handleLogin(username, password) ==
  /\ route = "/(auth)/login"
  /\ loginPc = "idle"
  /\ ~isSubmitting
  /\ respNow' = Trigger("press")
  /\ IF Trim(username) = <<>> \/ Trim(password) = <<>>
       THEN /\ alertNow' = {"Please enter both username and password"}
            /\ sentNow' = {}
            /\ siBefore' = NoSnapshot
            /\ siAlone' = TRUE
            /\ UNCHANGED <<isSubmitting, isLoading, loginPc, siArg>>
       ELSE /\ isSubmitting' = TRUE
            /\ isLoading' = TRUE
            /\ sentNow' = {Req("/user/login", NgrokUrl, NULL)}
            /\ alertNow' = {}
            /\ siArg' = username
            /\ loginPc' = "login"
            /\ siBefore' = Snapshot(token, user, store)
            /\ siAlone' = TRUE
  /\ UNCHANGED <<backendApiUrl, route, cells, loadVars, siData, siUser,
                 soVars, screenVars>>

signIn_login(r) ==
  /\ loginPc = "login"
  /\ respNow' = [op |-> "/user/login", res |-> r]
  /\ IF r = "ok"
       THEN /\ siData' = AccessToken(siArg)
            /\ sentNow' = {Req("/user/me", NgrokUrl, Bearer(AccessToken(siArg)))}
            /\ alertNow' = {}
            /\ loginPc' = "me"
            /\ UNCHANGED <<token, user, isLoading, route, isSubmitting,
                           siArg, siUser>>
       ELSE signIn_catch
  /\ UNCHANGED <<backendApiUrl, store, loadVars, snapVars, soVars, screenVars>>

signIn_me(r) ==
  /\ loginPc = "me"
  /\ respNow' = [op |-> "/user/me", res |-> r]
  /\ IF r = "ok"
       THEN /\ siUser' = FormatUser(UserMe(siData))
            /\ loginPc' = "setToken"
            /\ sentNow' = {} /\ alertNow' = {}
            /\ UNCHANGED <<token, user, isLoading, route, isSubmitting,
                           siArg, siData>>
       ELSE signIn_catch
  /\ UNCHANGED <<backendApiUrl, store, loadVars, snapVars, soVars, screenVars>>

signIn_setUserToken(r) ==
  /\ loginPc = "setToken"
  /\ respNow' = [op |-> "setItem:userToken", res |-> r]
  /\ IF r = "ok"
       THEN /\ store' = [store EXCEPT !.userToken = siData]
            /\ loginPc' = "setUser"
            /\ sentNow' = {} /\ alertNow' = {}
            /\ UNCHANGED <<token, user, isLoading, route, isSubmitting,
                           siArg, siData, siUser>>
       ELSE /\ signIn_catch
            /\ UNCHANGED store
  /\ UNCHANGED <<backendApiUrl, loadVars, snapVars, soVars, screenVars>>

signIn_setUserData(r) ==
  /\ loginPc = "setUser"
  /\ respNow' = [op |-> "setItem:userData", res |-> r]
  /\ IF r = "ok"
       THEN /\ store' = [store EXCEPT !.userData = JSONstringify(siUser)]
            /\ token' = siData
            /\ user' = siUser
            /\ isLoading' = FALSE
            /\ sentNow' = {} /\ alertNow' = {}
            /\ handleLogin_resume
       ELSE /\ signIn_catch
            /\ UNCHANGED store
  /\ UNCHANGED <<backendApiUrl, loadVars, snapVars, soVars, screenVars>>

----------------------------------------------------------------------------
(* ProfileScreen.handleSignOut, with hooks/useAuth.tsx: signOut *)

\* signOut's finally, then router.replace('/(auth)/login').
signOut_finally ==
  /\ isLoading' = FALSE
  /\ route' = "/(auth)/login"
  /\ soPc' = "idle"

handleSignOut(choice) ==
  /\ route = "/tabs"
  /\ ~isEditing
  /\ soPc = "idle"
  /\ respNow' = Trigger("press")
  /\ alertNow' = {"Are you sure you want to sign out?"}
  /\ sentNow' = {}
  /\ IF choice = "Sign Out"
       THEN /\ isLoading' = TRUE
            /\ soPc' = "delToken"
       ELSE UNCHANGED <<isLoading, soPc>>
  /\ UNCHANGED <<backendApiUrl, route, cells, loadVars, loginVars, screenVars>>
  /\ OtherStep

signOut_userToken(r) ==
  /\ soPc = "delToken"
  /\ respNow' = [op |-> "deleteItem:userToken", res |-> r]
  /\ sentNow' = {} /\ alertNow' = {}
  /\ IF r = "ok"
       THEN /\ store' = [store EXCEPT !.userToken = NULL]
            /\ soPc' = "delUser"
            /\ UNCHANGED <<isLoading, route>>
       ELSE /\ signOut_finally
            /\ UNCHANGED store
  /\ UNCHANGED <<backendApiUrl, token, user, loadVars, loginVars, screenVars>>
  /\ OtherStep

signOut_userData(r) ==
  /\ soPc = "delUser"
  /\ respNow' = [op |-> "deleteItem:userData", res |-> r]
  /\ sentNow' = {} /\ alertNow' = {}
  /\ IF r = "ok"
       THEN /\ store' = [store EXCEPT !.userData = NULL]
            /\ token' = NULL
            /\ user' = NULL
       ELSE UNCHANGED <<store, token, user>>
  /\ signOut_finally
  /\ UNCHANGED <<backendApiUrl, loadVars, loginVars, screenVars>>
  /\ OtherStep

----------------------------------------------------------------------------
(* app/(auth)/signup.tsx: SignUpScreen, with hooks/useAuth.tsx: signUp *)

SignUpRoute == "/(auth)/signup"

\* Characters of the text fields: [a-zA-Z0-9_] and the rest.
WordChars == {"a", "7", "_"}

\* /^[^\s@]+@[^\s@]+\.[^\s@]+$/.test(s)
emailRegex(s) ==
  \E i \in 1..Len(s), j \in 1..Len(s) :
    /\ 1 < i /\ i + 1 < j /\ j < Len(s)
    /\ s[i] = "@"
    /\ s[j] = "."
    /\ \A k \in 1..Len(s) : (k # i /\ k # j) => s[k] \notin {" ", "@"}

\* /^[a-zA-Z0-9_]+$/.test(s)
usernameRegex(s) == Len(s) >= 1 /\ \A k \in 1..Len(s) : s[k] \in WordChars

\* Texts the sign-up form may hold.
SignUpNames == {<<" ">>, <<"a">>}
SignUpUsernames == {<<>>, <<"a", "_", "7">>, <<"a", "-">>}
SignUpEmails ==
  {<<"a", "@", "a", ".", "a">>, <<"a", "@", "a">>,
   <<" ", "a", "@", "a", ".", "a">>, <<"a", "@", "@", ".", "a">>}
SignUpPasswords ==
  {<<" ", " ", " ", " ", " ", " ">>, <<"a", "a", "a", "a", "a">>,
   <<"a", "a", "a", "a", "a", "a">>, <<" ", " ", " ", " ", " ", "a">>}

SignUpForms ==
  [firstName : SignUpNames, lastName : {<<>>, <<"a">>},
   username : SignUpUsernames, email : SignUpEmails,
   password : SignUpPasswords]

\* A form that passes every check.
FilledForm ==
  [firstName |-> <<"a">>, lastName |-> <<"a">>, username |-> <<"a", "_", "7">>,
   email |-> <<"a", "@", "a", ".", "a">>,
   password |-> <<"a", "a", "a", "a", "a", "a">>]
\* Variant: the username is checked before the email.
SignUpCheck_usernameFirst(f) ==
  IF \/ Trim(f.firstName) = <<>> \/ Trim(f.lastName) = <<>>
     \/ Trim(f.username) = <<>> \/ Trim(f.email) = <<>>
     \/ Trim(f.password) = <<>>
    THEN "Please fill in all required fields"
  ELSE IF ~usernameRegex(f.username)
    THEN "Username can only contain letters, numbers, and underscores"
  ELSE IF ~emailRegex(f.email)
    THEN "Please enter a valid email address"
  ELSE IF Len(f.password) < 6
    THEN "Password must be at least 6 characters long"
  ELSE ""

\* The alert of the first check of handleSignUp that fails, "" if none does.
SignUpCheck(f) ==
  IF \/ Trim(f.firstName) = <<>> \/ Trim(f.lastName) = <<>>
     \/ Trim(f.username) = <<>> \/ Trim(f.email) = <<>>
     \/ Trim(f.password) = <<>>
    THEN "Please fill in all required fields"
  ELSE IF ~emailRegex(f.email)
    THEN "Please enter a valid email address"
  ELSE IF ~usernameRegex(f.username)
    THEN "Username can only contain letters, numbers, and underscores"
  ELSE IF Len(f.password) < 6
    THEN "Password must be at least 6 characters long"
  ELSE ""

\* error.message of what signUp's try block throws.
SignUpError(r) ==
  IF r = "non2xx" THEN "Registration failed"
  ELSE IF r = "non2xx_nojson" THEN "JSON Parse error"
  ELSE "Network request failed"

goToSignUp ==
  /\ route = "/(auth)/login"
  /\ route' = SignUpRoute
  /\ Quiet
  /\ UNCHANGED <<backendApiUrl, cells, isLoading, loadVars, loginVars,
                 soVars, screenVars>>
  /\ OtherStep

goToLogin ==
  /\ route = SignUpRoute
  /\ route' = "/(auth)/login"
  /\ Quiet
  /\ UNCHANGED <<backendApiUrl, cells, isLoading, loadVars, loginVars,
                 soVars, screenVars>>
  /\ OtherStep

handleSignUp(f) ==
  /\ route = SignUpRoute
  /\ ~suSubmitting
  /\ suPc = "idle"
  /\ respNow' = Trigger("press")
  /\ suForm' = f
  /\ IF SignUpCheck(f) # ""
       THEN /\ alertNow' = {SignUpCheck(f)}
            /\ sentNow' = {}
            /\ UNCHANGED <<suSubmitting, isLoading, suPc>>
       ELSE /\ suSubmitting' = TRUE
            /\ isLoading' = TRUE
            /\ sentNow' = {Req("/user/register", NgrokUrl, NULL)}
            /\ alertNow' = {}
            /\ suPc' = "register"
  /\ UNCHANGED <<backendApiUrl, route, cells, loadVars, loginVars, soVars,
                 dataVars, profileVars, suAlertOpen>>
  /\ OtherStep

\* Variant: a successful registration signs the new user in.
signUp_success_autologin ==
  /\ token' = AccessToken(suForm.username)
  /\ UNCHANGED <<user, store>>

\* "On successful sign-up, do not auto-login".
signUp_success == UNCHANGED cells

\* Variant: the catch block does not rethrow.
signUp_catch_swallow(r) ==
  {SignUpError(r),
   "Your account has been created! Please login with your credentials."}

\* signUp's catch: it alerts and rethrows, so handleSignUp skips its
\* 'Success' alert.
signUp_catch(r) == {SignUpError(r)}

\* The response to POST /user/register, signUp's finally, and what follows
\* `await signUp(...)` in handleSignUp.
signUp_response(r) ==
  /\ suPc = "register"
  /\ respNow' = [op |-> "/user/register", res |-> r]
  /\ IF r \in {"ok", "ok_nojson"}
       THEN /\ alertNow' =
                 {"Your account has been created! Please login with your credentials."}
            /\ suAlertOpen' = TRUE
            /\ signUp_success
       ELSE /\ UNCHANGED cells
            /\ alertNow' = signUp_catch(r)
            /\ suAlertOpen' =
                 (suAlertOpen \/
                  "Your account has been created! Please login with your credentials."
                    \in signUp_catch(r))
  /\ isLoading' = FALSE
  /\ suSubmitting' = FALSE
  /\ suPc' = "idle"
  /\ sentNow' = {}
  /\ UNCHANGED <<backendApiUrl, route, loadVars, loginVars, soVars,
                 dataVars, profileVars, suForm>>
  /\ OtherStep

\* The OK button of the 'Success' alert.
SuccessAlert_OK ==
  /\ suAlertOpen
  /\ suAlertOpen' = FALSE
  /\ route' = "/(auth)/login"
  /\ Quiet
  /\ UNCHANGED <<backendApiUrl, cells, isLoading, loadVars, loginVars, soVars,
                 dataVars, profileVars, suPc, suSubmitting, suForm>>
  /\ OtherStep

----------------------------------------------------------------------------
(* ProfileScreen (unnamed/part_007), with hooks/useAuth.tsx: updateUserInfo *)

\* E-mail addresses the profile form may hold.
ProfileEmails == {"e1", "e2"}

\* updateUserInfo's updatedUser: {...user, email: userData.email, ...}
UpdatedUser(u, email) == <<"user", u[2], email>>

\* The edit / close button.
toggleEditing ==
  /\ route = "/tabs"
  /\ isEditing' = ~isEditing
  /\ Quiet
  /\ UNCHANGED <<backendApiUrl, route, cells, isLoading, loadVars, loginVars,
                 soVars, dataVars, signupVars, upPc, upCtx, upUser,
                 profLoading, profErrors>>
  /\ OtherStep

\* What handleSaveProfile's catch and finally do.
handleSaveProfile_catch ==
  /\ alertNow' = {"Failed to update profile. Please try again."}
  /\ profLoading' = FALSE
  /\ UNCHANGED isEditing

\* Variant: the failure is swallowed, the stored userData is overwritten.
updateUserInfo_catch_swallow ==
  /\ isLoading' = FALSE
  /\ upPc' = "idle"
  /\ upCtx' = NULL
  /\ upUser' = NULL
  /\ sentNow' = {}
  /\ alertNow' = {"Profile updated successfully"}
  /\ profLoading' = FALSE
  /\ isEditing' = FALSE

\* updateUserInfo's catch (rethrow) and finally, then handleSaveProfile's.
updateUserInfo_catch ==
  /\ isLoading' = FALSE
  /\ upPc' = "idle"
  /\ upCtx' = NULL
  /\ upUser' = NULL
  /\ sentNow' = {}
  /\ handleSaveProfile_catch

\* formOk: validateForm() returned true.
handleSaveProfile(formOk, email) ==
  /\ route = "/tabs"
  /\ isEditing
  /\ ~profLoading
  /\ upPc = "idle"
  /\ respNow' = Trigger("press")
  /\ profErrors' = ~formOk
  /\ IF ~formOk
       THEN /\ sentNow' = {} /\ alertNow' = {}
            /\ UNCHANGED <<isLoading, upPc, upCtx, profLoading, isEditing>>
       ELSE IF user = NULL \/ token = NULL
         THEN /\ sentNow' = {}
              /\ handleSaveProfile_catch
              /\ UNCHANGED <<isLoading, upPc, upCtx>>
         ELSE /\ profLoading' = TRUE
              /\ isLoading' = TRUE
              /\ sentNow' = {Req("PUT /user/{id}/update", NgrokUrl, Bearer(token))}
              /\ alertNow' = {}
              /\ upPc' = "put"
              /\ upCtx' = <<user, token, email>>
              /\ UNCHANGED isEditing
  /\ UNCHANGED <<backendApiUrl, route, cells, loadVars, loginVars, soVars,
                 dataVars, signupVars, upUser>>
  /\ OtherStep

updateUserInfo_response(r) ==
  /\ upPc = "put"
  /\ respNow' = [op |-> "PUT /user/{id}/update", res |-> r]
  /\ IF r \in {"ok", "ok_nojson"}
       THEN /\ upUser' = UpdatedUser(upCtx[1], upCtx[3])
            /\ upPc' = "setItem"
            /\ sentNow' = {} /\ alertNow' = {}
            /\ UNCHANGED <<isLoading, upCtx, profLoading, isEditing>>
       ELSE updateUserInfo_catch
  /\ UNCHANGED <<backendApiUrl, route, cells, loadVars, loginVars, soVars,
                 dataVars, signupVars, profErrors>>
  /\ OtherStep

updateUserInfo_setUserData(r) ==
  /\ upPc = "setItem"
  /\ respNow' = [op |-> "setItem:userData(update)", res |-> r]
  /\ IF r = "ok"
       THEN /\ store' = [store EXCEPT !.userData = JSONstringify(upUser)]
            /\ user' = upUser
            /\ isLoading' = FALSE
            /\ upPc' = "idle"
            /\ upCtx' = NULL
            /\ upUser' = NULL
            /\ sentNow' = {}
            /\ isEditing' = FALSE
            /\ alertNow' = {"Profile updated successfully"}
            /\ profLoading' = FALSE
       ELSE /\ updateUserInfo_catch
            /\ UNCHANGED <<store, user>>
  /\ UNCHANGED <<backendApiUrl, route, token, loadVars, loginVars, soVars,
                 dataVars, signupVars, profErrors>>
  /\ OtherStep

----------------------------------------------------------------------------

(* HomeScreen (unnamed/part_005) *)

\* Calls one screen may have awaiting a response at a time.
MaxPending == 2

\* fetchSpaces(): the request it sends, if it gets past its guard.
fetchSpaces(tok, usr) ==
  IF tok = NULL \/ usr = NULL THEN {}
  ELSE {Req("/space/user/{user.id}", backendApiUrl, Bearer(tok))}

\* fetchPatients(): the request it sends, if it gets past its guard.
fetchPatients(tok, usr) ==
  IF tok = NULL \/ usr = NULL THEN {}
  ELSE {Req("/patient", backendApiUrl, Bearer(tok))}

\* useEffect(() => { fetchSpaces(); fetchPatients(); }, [token, user])
HomeScreen_useEffect ==
  /\ route = "/tabs"
  /\ homeDeps # <<token, user>>
  /\ fsN < MaxPending /\ fpN < MaxPending
  /\ homeDeps' = <<token, user>>
  /\ respNow' = Trigger("effect")
  /\ sentNow' = fetchSpaces(token, user) \cup fetchPatients(token, user)
  /\ alertNow' = {}
  /\ IF fetchSpaces(token, user) # {}
       THEN homeLoading' = TRUE /\ fsN' = fsN + 1 /\ fpN' = fpN + 1
       ELSE UNCHANGED <<homeLoading, fsN, fpN>>
  /\ UNCHANGED <<backendApiUrl, route, authVars, notHome, savePc, saveCtx, delPc,
                 delCtx, modalVisible>>

fetchSpaces_response(r) ==
  /\ fsN > 0
  /\ fsN' = fsN - 1
  /\ respNow' = [op |-> "/space/user/{user.id}", res |-> r]
  /\ alertNow' = IF r = "ok" THEN {}
                 ELSE {"Failed to load your spaces. Please try again later."}
  /\ homeLoading' = FALSE
  /\ sentNow' = {}
  /\ UNCHANGED <<backendApiUrl, route, authVars, notHome, homeDeps, fpN, savePc,
                 saveCtx, delPc, delCtx, modalVisible>>

fetchPatients_response(r) ==
  /\ fpN > 0
  /\ fpN' = fpN - 1
  /\ respNow' = [op |-> "/patient", res |-> r]
  /\ alertNow' = IF r = "ok" THEN {}
                 ELSE {"Failed to load your patients. Please try again later."}
  /\ homeLoading' = FALSE
  /\ sentNow' = {}
  /\ UNCHANGED <<backendApiUrl, route, authVars, notHome, homeDeps, fsN, savePc,
                 saveCtx, delPc, delCtx, modalVisible>>

\* handleAddPatient / handleEditPatient open the patient form.
handleEditPatient ==
  /\ route = "/tabs"
  /\ ~modalVisible
  /\ modalVisible' = TRUE
  /\ Quiet
  /\ UNCHANGED <<backendApiUrl, route, authVars, notHome, homeDeps, homeLoading, fsN,
                 fpN, savePc, saveCtx, delPc, delCtx>>

\* formOk: patientName, patientCondition and patientAge are non-blank;
\* editing: currentPatient is set.
handleSavePatient(formOk, editing) ==
  /\ route = "/tabs"
  /\ modalVisible
  /\ savePc = "idle"
  /\ respNow' = Trigger("press")
  /\ IF token = NULL \/ ~formOk
       THEN /\ alertNow' = {"Name, condition and age are required"}
            /\ sentNow' = {}
            /\ UNCHANGED <<savePc, saveCtx>>
       ELSE /\ alertNow' = {}
            /\ sentNow' = {Req(IF editing THEN "PUT /patient/{id}"
                                           ELSE "POST /patient",
                                backendApiUrl, Bearer(token))}
            /\ savePc' = "wait"
            /\ saveCtx' = <<token, user, IF editing THEN "updated" ELSE "added">>
  /\ UNCHANGED <<backendApiUrl, route, authVars, notHome, homeDeps, homeLoading, fsN,
                 fpN, delPc, delCtx, modalVisible>>

handleSavePatient_response(r) ==
  /\ savePc = "wait"
  /\ fpN < MaxPending
  /\ respNow' = [op |-> "save /patient", res |-> r]
  /\ savePc' = "idle"
  /\ saveCtx' = NULL
  /\ IF r \in {"ok", "ok_nojson"}
       THEN /\ modalVisible' = FALSE
            /\ sentNow' = fetchPatients(saveCtx[1], saveCtx[2])
            /\ IF fetchPatients(saveCtx[1], saveCtx[2]) # {}
                 THEN homeLoading' = TRUE /\ fpN' = fpN + 1
                 ELSE UNCHANGED <<homeLoading, fpN>>
            /\ alertNow' = {<<"Patient", saveCtx[3], "successfully">>}
       ELSE /\ alertNow' = {"Failed to save patient. Please try again later."}
            /\ sentNow' = {}
            /\ UNCHANGED <<modalVisible, homeLoading, fpN>>
  /\ UNCHANGED <<backendApiUrl, route, authVars, notHome, homeDeps, fsN, delPc, delCtx>>

handleDeletePatient(choice) ==
  /\ route = "/tabs"
  /\ delPc = "idle"
  /\ respNow' = Trigger("press")
  /\ IF token = NULL
       THEN /\ alertNow' = {}
            /\ sentNow' = {}
            /\ UNCHANGED <<delPc, delCtx>>
       ELSE /\ alertNow' = {"Are you sure you want to remove this patient?"}
            /\ IF choice = "Delete"
                 THEN /\ sentNow' = {Req("DELETE /patient/{id}", backendApiUrl,
                                         Bearer(token))}
                      /\ delPc' = "wait"
                      /\ delCtx' = <<token, user>>
                 ELSE /\ sentNow' = {}
                      /\ UNCHANGED <<delPc, delCtx>>
  /\ UNCHANGED <<backendApiUrl, route, authVars, notHome, homeDeps, homeLoading, fsN,
                 fpN, savePc, saveCtx, modalVisible>>

handleDeletePatient_response(r) ==
  /\ delPc = "wait"
  /\ fpN < MaxPending
  /\ respNow' = [op |-> "DELETE /patient/{id}", res |-> r]
  /\ delPc' = "idle"
  /\ delCtx' = NULL
  /\ IF r \in {"ok", "ok_nojson"}
       THEN /\ sentNow' = fetchPatients(delCtx[1], delCtx[2])
            /\ IF fetchPatients(delCtx[1], delCtx[2]) # {}
                 THEN homeLoading' = TRUE /\ fpN' = fpN + 1
                 ELSE UNCHANGED <<homeLoading, fpN>>
            /\ modalVisible' = FALSE
            /\ alertNow' = {"Patient removed successfully"}
       ELSE /\ alertNow' = {"Failed to delete patient. Please try again later."}
            /\ sentNow' = {}
            /\ UNCHANGED <<modalVisible, homeLoading, fpN>>
  /\ UNCHANGED <<backendApiUrl, route, authVars, notHome, homeDeps, fsN, savePc, saveCtx>>

----------------------------------------------------------------------------

(* SpaceDetailsScreen (unnamed/part_004) *)

SpaceRoute == "/space/[id]"

\* Variant: the `space` state is listed among the dependencies as well.
fetchSpaceDetailsDeps_withSpace == <<sdId, token, backendApiUrl, sdSpace>>

\* The dependency list that decides when fetchSpaceDetails is re-created and
\* with it when the effect runs again: [id, token, API_BASE_URL, fetchPatients],
\* fetchPatients itself depending on [token, API_BASE_URL].
fetchSpaceDetailsDeps == <<sdId, token, backendApiUrl>>

\* A response object with a new identity.
NewObject(old) == IF old = <<"obj", "1">> THEN <<"obj", "2">> ELSE <<"obj", "1">>

\* fetchSpaceDetails up to its first await.
fetchSpaceDetails_call ==
  IF token = NULL \/ sdId = NULL
    THEN /\ sentNow' = {}
         /\ UNCHANGED <<sdLoading, sdSpaceN>>
    ELSE /\ sdLoading' = TRUE
         /\ sentNow' = {Req("/space/{id}", backendApiUrl, Bearer(token))}
         /\ sdSpaceN' = sdSpaceN + 1

SpaceDetailsScreen_useEffect ==
  /\ route = SpaceRoute
  /\ sdDeps # fetchSpaceDetailsDeps
  /\ sdSpaceN + sdLogsN + sdPatN < MaxPending
  /\ sdDeps' = fetchSpaceDetailsDeps
  /\ respNow' = Trigger("effect")
  /\ alertNow' = {}
  /\ fetchSpaceDetails_call
  /\ sdEffectGets' = IF token # NULL /\ sdId # NULL /\ sdEffectGets < 2
                       THEN sdEffectGets + 1 ELSE sdEffectGets
  /\ UNCHANGED <<backendApiUrl, route, authVars, notSpace, sdId, sdRefreshing,
                 sdSpace, sdLogsN, sdPatN, sdSavePc, sdDelPc>>

onRefresh ==
  /\ route = SpaceRoute
  /\ ~sdRefreshing
  /\ sdSpaceN + sdLogsN + sdPatN < MaxPending
  /\ sdRefreshing' = TRUE
  /\ respNow' = Trigger("press")
  /\ alertNow' = {}
  /\ fetchSpaceDetails_call
  /\ UNCHANGED <<backendApiUrl, route, authVars, notSpace, sdId, sdDeps,
                 sdSpace, sdLogsN, sdPatN, sdSavePc, sdDelPc, sdEffectGets>>

\* Variant: the catch block issues the request once more.
fetchSpaceDetails_catch_retry ==
  /\ alertNow' = {"Failed to load space details. Please try again later."}
  /\ sdLoading' = FALSE
  /\ sdRefreshing' = FALSE
  /\ sentNow' = {Req("/space/{id}", backendApiUrl, Bearer(token))}

\* fetchSpaceDetails' catch and finally.
fetchSpaceDetails_catch ==
  /\ alertNow' = {"Failed to load space details. Please try again later."}
  /\ sdLoading' = FALSE
  /\ sdRefreshing' = FALSE
  /\ sentNow' = {}

fetchSpaceDetails_space(r) ==
  /\ sdSpaceN > 0
  /\ sdSpaceN' = sdSpaceN - 1
  /\ respNow' = [op |-> "/space/{id}", res |-> r]
  /\ IF r = "ok"
       THEN /\ sdSpace' = NewObject(sdSpace)
            /\ sentNow' = {Req("/space/logs/space/{id}", backendApiUrl,
                               Bearer(token))}
            /\ sdLogsN' = sdLogsN + 1
            /\ alertNow' = {}
            /\ UNCHANGED <<sdLoading, sdRefreshing>>
       ELSE /\ fetchSpaceDetails_catch
            /\ UNCHANGED <<sdSpace, sdLogsN>>
  /\ UNCHANGED <<backendApiUrl, route, authVars, notSpace, sdId, sdDeps,
                 sdPatN, sdSavePc, sdDelPc, sdEffectGets>>

fetchSpaceDetails_logs(r) ==
  /\ sdLogsN > 0
  /\ sdLogsN' = sdLogsN - 1
  /\ respNow' = [op |-> "/space/logs/space/{id}", res |-> r]
  /\ IF r = "ok"
       THEN /\ sentNow' = {Req("/patient", backendApiUrl, Bearer(token))}
            /\ sdPatN' = sdPatN + 1
            /\ alertNow' = {}
            /\ UNCHANGED <<sdLoading, sdRefreshing>>
       ELSE /\ fetchSpaceDetails_catch
            /\ UNCHANGED sdPatN
  /\ UNCHANGED <<backendApiUrl, route, authVars, notSpace, sdId, sdDeps,
                 sdSpace, sdSpaceN, sdSavePc, sdDelPc, sdEffectGets>>

\* fetchPatients(spaceData) as awaited by fetchSpaceDetails: it catches its
\* own errors, then fetchSpaceDetails reaches its finally.
fetchSpaceDetails_patients(r) ==
  /\ sdPatN > 0
  /\ sdPatN' = sdPatN - 1
  /\ respNow' = [op |-> "/patient", res |-> r]
  /\ alertNow' = IF r = "ok" THEN {}
                 ELSE {"Failed to load patients. Please try again later."}
  /\ sdLoading' = FALSE
  /\ sdRefreshing' = FALSE
  /\ sentNow' = {}
  /\ UNCHANGED <<backendApiUrl, route, authVars, notSpace, sdId, sdDeps,
                 sdSpace, sdSpaceN, sdLogsN, sdSavePc, sdDelPc, sdEffectGets>>

\* nameOk: spaceName is non-blank.
handleSaveSpace(nameOk) ==
  /\ route = SpaceRoute
  /\ sdSavePc = "idle"
  /\ respNow' = Trigger("press")
  /\ IF token = NULL \/ sdId = NULL \/ ~nameOk
       THEN /\ alertNow' = {"Space name is required"}
            /\ sentNow' = {}
            /\ UNCHANGED sdSavePc
       ELSE /\ alertNow' = {}
            /\ sentNow' = {Req("PUT /space/{id}", backendApiUrl, Bearer(token))}
            /\ sdSavePc' = "wait"
  /\ UNCHANGED <<backendApiUrl, route, authVars, notSpace, sdId, sdDeps,
                 sdLoading, sdRefreshing, sdSpace, sdSpaceN, sdLogsN, sdPatN,
                 sdDelPc, sdEffectGets>>

handleSaveSpace_response(r) ==
  /\ sdSavePc = "wait"
  /\ sdSpaceN + sdLogsN + sdPatN < MaxPending
  /\ respNow' = [op |-> "PUT /space/{id}", res |-> r]
  /\ sdSavePc' = "idle"
  /\ IF r \in {"ok", "ok_nojson"}
       THEN /\ fetchSpaceDetails_call
            /\ alertNow' = {"Space updated successfully"}
       ELSE /\ alertNow' = {"Failed to update space. Please try again later."}
            /\ sentNow' = {}
            /\ UNCHANGED <<sdLoading, sdSpaceN>>
  /\ UNCHANGED <<backendApiUrl, route, authVars, notSpace, sdId, sdDeps,
                 sdRefreshing, sdSpace, sdLogsN, sdPatN, sdDelPc, sdEffectGets>>

handleDeleteSpace(choice) ==
  /\ route = SpaceRoute
  /\ sdDelPc = "idle"
  /\ respNow' = Trigger("press")
  /\ IF token = NULL \/ sdId = NULL
       THEN /\ alertNow' = {"Authorization required"}
            /\ sentNow' = {}
            /\ UNCHANGED sdDelPc
       ELSE /\ alertNow' = {"Are you sure you want to delete this space?"}
            /\ IF choice = "Delete"
                 THEN /\ sentNow' = {Req("DELETE /space/{id}", backendApiUrl,
                                         Bearer(token))}
                      /\ sdDelPc' = "wait"
                 ELSE /\ sentNow' = {}
                      /\ UNCHANGED sdDelPc
  /\ UNCHANGED <<backendApiUrl, route, authVars, notSpace, sdId, sdDeps,
                 sdLoading, sdRefreshing, sdSpace, sdSpaceN, sdLogsN, sdPatN,
                 sdSavePc, sdEffectGets>>

handleDeleteSpace_response(r) ==
  /\ sdDelPc = "wait"
  /\ respNow' = [op |-> "DELETE /space/{id}", res |-> r]
  /\ sdDelPc' = "idle"
  /\ sentNow' = {}
  /\ IF r \in {"ok", "ok_nojson"}
       THEN /\ route' = "/tabs"
            /\ alertNow' = {"Space deleted successfully"}
       ELSE /\ alertNow' = {"Failed to delete space. Please try again later."}
            /\ UNCHANGED route
  /\ UNCHANGED <<backendApiUrl, authVars, notSpace, sdId, sdDeps, sdLoading,
                 sdRefreshing, sdSpace, sdSpaceN, sdLogsN, sdPatN, sdSavePc,
                 sdEffectGets>>

----------------------------------------------------------------------------

(* SpaceDetailsScreen (app/space/log.tsx) *)

LogRoute == "/space/log/[logId]"

\* useEffect(() => { fetchSpaceDetails(); }, [id, token])
fetchSpaceDetails0_useEffect ==
  /\ route = LogRoute
  /\ slDeps # <<sdId, token>>
  /\ slPc = "idle"
  /\ slDeps' = <<sdId, token>>
  /\ respNow' = Trigger("effect")
  /\ alertNow' = {}
  /\ IF token = NULL \/ sdId = NULL
       THEN /\ sentNow' = {}
            /\ UNCHANGED <<slLoading, slPc>>
       ELSE /\ slLoading' = TRUE
            /\ sentNow' = {Req("/space/{id}", backendApiUrl, Bearer(token))}
            /\ slPc' = "space"
  /\ UNCHANGED <<backendApiUrl, route, authVars, notLog, sdId, ldId, ldDeps,
                 ldLoading, ldPc>>

fetchSpaceDetails0_space(r) ==
  /\ slPc = "space"
  /\ respNow' = [op |-> "/space/{id}", res |-> r]
  /\ IF r = "ok"
       THEN /\ sentNow' = {Req("/space/logs/space/{id}", backendApiUrl,
                               Bearer(token))}
            /\ slPc' = "logs"
            /\ alertNow' = {}
            /\ UNCHANGED slLoading
       ELSE /\ alertNow' = {"Failed to load space details. Please try again later."}
            /\ sentNow' = {}
            /\ slLoading' = FALSE
            /\ slPc' = "idle"
  /\ UNCHANGED <<backendApiUrl, route, authVars, notLog, sdId, slDeps, ldId,
                 ldDeps, ldLoading, ldPc>>

fetchSpaceDetails0_logs(r) ==
  /\ slPc = "logs"
  /\ respNow' = [op |-> "/space/logs/space/{id}", res |-> r]
  /\ alertNow' = IF r = "ok" THEN {}
                 ELSE {"Failed to load space details. Please try again later."}
  /\ sentNow' = {}
  /\ slLoading' = FALSE
  /\ slPc' = "idle"
  /\ UNCHANGED <<backendApiUrl, route, authVars, notLog, sdId, slDeps, ldId,
                 ldDeps, ldLoading, ldPc>>

(* LogDetailScreen (app/space/log/[logId].tsx) *)

\* useEffect(() => { fetchLogDetails(); }, [logId, token])
fetchLogDetails_useEffect ==
  /\ route = LogRoute
  /\ ldDeps # <<ldId, token>>
  /\ ldPc = "idle"
  /\ ldDeps' = <<ldId, token>>
  /\ respNow' = Trigger("effect")
  /\ alertNow' = {}
  /\ IF token = NULL \/ ldId = NULL
       THEN /\ sentNow' = {}
            /\ UNCHANGED <<ldLoading, ldPc>>
       ELSE /\ ldLoading' = TRUE
            /\ sentNow' = {Req("/space/logs/{logId}", backendApiUrl, Bearer(token))}
            /\ ldPc' = "wait"
  /\ UNCHANGED <<backendApiUrl, route, authVars, notLog, sdId, slDeps,
                 slLoading, slPc, ldId>>

fetchLogDetails_response(r) ==
  /\ ldPc = "wait"
  /\ respNow' = [op |-> "/space/logs/{logId}", res |-> r]
  /\ alertNow' = IF r = "ok" THEN {}
                 ELSE {"Failed to load assessment details. Please try again later."}
  /\ sentNow' = {}
  /\ ldLoading' = FALSE
  /\ ldPc' = "idle"
  /\ UNCHANGED <<backendApiUrl, route, authVars, notLog, sdId, slDeps,
                 slLoading, slPc, ldId, ldDeps>>

----------------------------------------------------------------------------
(* ChatScreen (app/index.tsx, lines 29-354) *)

ChatRoute == "/tabs/chat"

\* The screen's own loadToken effect: it reads userData from SecureStore.
ChatScreen_loadToken(r) ==
  /\ chatLoadPc = "getUser"
  /\ respNow' = [op |-> "getItem:userData", res |-> r]
  /\ chatUserData' = IF r = "ok" /\ store.userData # NULL
                       THEN JSONparse(store.userData) ELSE chatUserData
  /\ chatLoadPc' = "done"
  /\ chatLoading' = FALSE
  /\ sentNow' = {} /\ alertNow' = {} /\ msgNow' = {}
  /\ UNCHANGED <<backendApiUrl, route, authVars, notChat, chatN, convVars>>

\* 'Authorization': token ? `Bearer ${token}` : ''
ChatAuthorization(tok) == IF tok # NULL THEN Bearer(tok) ELSE <<"">>

\* Messages one mount of the screen may send.
MaxSends == 3

\* GiftedChat.append(previousMessages, newMessages): the new ones come first.
GiftedChatAppend(previousMessages, newMessages) == newMessages \o previousMessages

\* data.history of a successful response: the history the request carried,
\* extended by the exchange it answers.
DataHistory(q) == q.hist \o <<q.id>>

startNewConversation ==
  /\ route = ChatRoute
  /\ respNow' = Trigger("press")
  /\ messageHistory' = <<>>
  /\ messages' = <<"welcome">>
  /\ showSuggestions' = TRUE
  /\ chatReqs' = {[q EXCEPT !.old = TRUE] : q \in chatReqs}
  /\ chatFresh' = TRUE
  /\ chatLastHist' = <<>>
  /\ chatDone' = {}
  /\ sentNow' = {} /\ alertNow' = {} /\ msgNow' = {}
  /\ UNCHANGED <<backendApiUrl, route, authVars, notChat, chatUserData,
                 chatLoadPc, chatLoading, chatN, chatSent>>

onSend ==
  /\ route = ChatRoute
  /\ chatN < MaxPending
  /\ chatSent < MaxSends
  /\ respNow' = Trigger("press")
  /\ showSuggestions' = FALSE
  /\ messages' = GiftedChatAppend(messages, <<"user">>)
  /\ msgNow' = {"user"}
  /\ chatLoading' = TRUE
  /\ sentNow' = {Req("/simple_agent/simple_conversation", backendApiUrl,
                     ChatAuthorization(token))}
  /\ alertNow' = {}
  /\ chatN' = chatN + 1
  /\ chatSent' = chatSent + 1
  /\ chatReqs' = chatReqs \cup
                   {[id |-> chatSent + 1, hist |-> messageHistory, old |-> FALSE]}
  /\ chatFresh' = FALSE
  /\ UNCHANGED <<backendApiUrl, route, authVars, notChat, chatUserData,
                 chatLoadPc, messageHistory, chatLastHist, chatDone>>

\* A suggestion bubble sends its text through onSend.
onSuggestionPress ==
  /\ showSuggestions
  /\ onSend

\* hasResponse: the JSON body has a non-empty `response` field.
onSend_response(r, hasResponse) ==
  /\ chatN > 0
  /\ chatN' = chatN - 1
  /\ respNow' = [op |-> "/simple_agent/simple_conversation", res |-> r]
  /\ msgNow' = IF r \in {"ok_nojson", "non2xx_nojson", "neterr"} THEN {"error"}
               ELSE IF r = "ok" /\ hasResponse THEN {"agent"}
               ELSE {}
  /\ \E q \in chatReqs :
       /\ chatReqs' = chatReqs \ {q}
       /\ IF r = "ok" /\ hasResponse
            THEN /\ messageHistory' = DataHistory(q)
                 /\ messages' = GiftedChatAppend(messages, <<"agent">>)
                 /\ IF q.old
                      THEN UNCHANGED <<chatLastHist, chatDone>>
                      ELSE /\ chatLastHist' = DataHistory(q)
                           /\ chatDone' = chatDone \cup {q.id}
            ELSE /\ messages' =
                      IF r \in {"ok_nojson", "non2xx_nojson", "neterr"}
                        THEN GiftedChatAppend(messages, <<"error">>)
                        ELSE messages
                 /\ UNCHANGED <<messageHistory, chatLastHist, chatDone>>
  /\ chatLoading' = FALSE
  /\ sentNow' = {} /\ alertNow' = {}
  /\ UNCHANGED <<backendApiUrl, route, authVars, notChat, chatUserData,
                 chatLoadPc, showSuggestions, chatSent, chatFresh>>

----------------------------------------------------------------------------
(* CaptureScreen (app/capture/_layout.tsx) *)

CaptureRoute == "/capture/new"

\* pickImageFromGallery / takePhotoWithCamera
pickImageFromGallery(granted, canceled) ==
  /\ route = CaptureRoute
  /\ imageUri = NULL
  /\ ~uploading
  /\ respNow' = Trigger("press")
  /\ sentNow' = {}
  /\ alertNow' = IF granted THEN {} ELSE {"Permission denied"}
  /\ imageUri' = IF granted /\ ~canceled THEN <<"file.jpg">> ELSE imageUri
  /\ UNCHANGED <<backendApiUrl, route, authVars, notCap, capSpaceId,
                 uploading, capPc>>

\* performUpload up to its await.
performUpload ==
  /\ uploading' = TRUE
  /\ capPc' = "wait"
  /\ sentNow' = {Req("/space/logs/upload-image", backendApiUrl, Bearer(token))}

\* choice: the button pressed if the 'Missing Space ID' alert is shown.
uploadImage(choice) ==
  /\ route = CaptureRoute
  /\ ~uploading
  /\ capPc = "idle"
  /\ respNow' = Trigger("press")
  /\ IF imageUri = NULL
       THEN /\ alertNow' = {"Please select or capture an image first"}
            /\ sentNow' = {}
            /\ UNCHANGED <<uploading, capPc>>
       ELSE IF capSpaceId = NULL
         THEN /\ alertNow' = {"Missing Space ID"}
              /\ IF choice = "Continue Anyway"
                   THEN performUpload
                   ELSE /\ sentNow' = {}
                        /\ UNCHANGED <<uploading, capPc>>
         ELSE IF token = NULL
           THEN /\ alertNow' = {"You are not authenticated. Please log in again."}
                /\ sentNow' = {}
                /\ UNCHANGED <<uploading, capPc>>
           ELSE /\ alertNow' = {}
                /\ performUpload
  /\ UNCHANGED <<backendApiUrl, route, authVars, notCap, capSpaceId, imageUri>>

performUpload_response(r) ==
  /\ capPc = "wait"
  /\ respNow' = [op |-> "/space/logs/upload-image", res |-> r]
  /\ alertNow' = IF r \in {"ok", "ok_nojson"}
                   THEN {"Image uploaded successfully!"}
                   ELSE {"Failed to upload image. Please try again."}
  /\ sentNow' = {}
  /\ uploading' = FALSE
  /\ capPc' = "idle"
  /\ UNCHANGED <<backendApiUrl, route, authVars, notCap, capSpaceId, imageUri>>

----------------------------------------------------------------------------

AuthNext ==
  \/ Index
  \/ \E r \in StoreResults : loadToken_userToken(r)
  \/ \E r \in StoreResults : loadToken_userData(r)
  \/ \E u \in Usernames, p \in Passwords : handleLogin(u, p)
  \/ \E r \in FetchResults : signIn_login(r)
  \/ \E r \in FetchResults : signIn_me(r)
  \/ \E r \in StoreResults : signIn_setUserToken(r)
  \/ \E r \in StoreResults : signIn_setUserData(r)
  \/ \E c \in {"Cancel", "Sign Out"} : handleSignOut(c)
  \/ \E r \in StoreResults : signOut_userToken(r)
  \/ \E r \in StoreResults : signOut_userData(r)

Next == AuthNext

Spec == Init /\ [][Next]_vars

\* The app is opened on the tab screens; HomeScreen is mounted while the
\* auth context is still loading the stored session.
InitHomeScreen ==
  /\ InitAuth
  /\ route = "/tabs"
  /\ InitHome
  /\ InitSpace
  /\ InitLog
  /\ InitChat
  /\ InitCapture

NextHome ==
  \/ \E r \in StoreResults : loadToken_userToken(r)
  \/ \E r \in StoreResults : loadToken_userData(r)
  \/ \E c \in {"Cancel", "Sign Out"} : handleSignOut(c)
  \/ \E r \in StoreResults : signOut_userToken(r)
  \/ \E r \in StoreResults : signOut_userData(r)
  \/ HomeScreen_useEffect
  \/ \E r \in FetchResults : fetchSpaces_response(r)
  \/ \E r \in FetchResults : fetchPatients_response(r)
  \/ handleEditPatient
  \/ \E ok \in BOOLEAN, ed \in BOOLEAN : handleSavePatient(ok, ed)
  \/ \E r \in FetchResults : handleSavePatient_response(r)
  \/ \E c \in {"Cancel", "Delete"} : handleDeletePatient(c)
  \/ \E r \in FetchResults : handleDeletePatient_response(r)

SpecHome == InitHomeScreen /\ [][NextHome]_vars

\* Auth operations that may be in progress at a time.
MaxAuthOps == 2

\* The auth operations in progress.
AuthOps ==
  (IF loadPc \in {"getToken", "getUser"} THEN 1 ELSE 0)
  + (IF loginPc # "idle" THEN 1 ELSE 0)
  + (IF suPc # "idle" THEN 1 ELSE 0)
  + (IF soPc # "idle" THEN 1 ELSE 0)
  + (IF upPc # "idle" THEN 1 ELSE 0)

\* The app is opened at its index route; one account has used the device.
InitSession ==
  /\ Init
  /\ backendApiUrl = NgrokUrl
  /\ store.userToken \in {NULL, AccessToken(<<"a">>)}

\* Everything that touches the session: the startup load, the login,
\* sign-up and profile screens.
NextSession ==
  \/ Index
  \/ \E r \in StoreResults : loadToken_userToken(r)
  \/ \E r \in StoreResults : loadToken_userData(r)
  \/ AuthOps < MaxAuthOps /\ \E u \in {<<>>, <<"a">>} : handleLogin(u, <<"p">>)
  \/ \E r \in FetchResults : signIn_login(r)
  \/ \E r \in FetchResults : signIn_me(r)
  \/ \E r \in StoreResults : signIn_setUserToken(r)
  \/ \E r \in StoreResults : signIn_setUserData(r)
  \/ AuthOps < MaxAuthOps /\ \E c \in {"Cancel", "Sign Out"} : handleSignOut(c)
  \/ \E r \in StoreResults : signOut_userToken(r)
  \/ \E r \in StoreResults : signOut_userData(r)
  \/ goToSignUp
  \/ goToLogin
  \/ AuthOps < MaxAuthOps /\ \E f \in {FilledForm, BlankForm} : handleSignUp(f)
  \/ \E r \in FetchResults : signUp_response(r)
  \/ SuccessAlert_OK
  \/ toggleEditing
  \/ AuthOps < MaxAuthOps /\ \E ok \in BOOLEAN : handleSaveProfile(ok, "e2")
  \/ \E r \in FetchResults : updateUserInfo_response(r)
  \/ \E r \in StoreResults : updateUserInfo_setUserData(r)

SpecSession == InitSession /\ [][NextSession]_vars

\* The app is opened on the sign-up screen; one account may have used the
\* device before.
InitSignUpScreen ==
  /\ InitAuth
  /\ backendApiUrl = NgrokUrl
  /\ store.userToken \in {NULL, AccessToken(<<"a">>)}
  /\ route = SignUpRoute
  /\ InitHome
  /\ InitSpace
  /\ InitLog
  /\ InitChat
  /\ InitCapture

NextSignUp ==
  \/ \E r \in StoreResults : loadToken_userToken(r)
  \/ \E r \in StoreResults : loadToken_userData(r)
  \/ goToSignUp
  \/ goToLogin
  \/ \E f \in SignUpForms : handleSignUp(f)
  \/ \E r \in FetchResults : signUp_response(r)
  \/ SuccessAlert_OK

SpecSignUp == InitSignUpScreen /\ [][NextSignUp]_vars


\* The app is opened on a space's screen (the id may be missing from the
\* link) while the auth context is still loading the stored session.  While
\* the screen is mounted nothing but loadToken changes the token, so the
\* token a fetchSpaceDetails closure holds is the context's token.
InitSpaceScreen ==
  /\ InitAuth
  /\ route = SpaceRoute
  /\ InitHome
  /\ InitLog
  /\ InitChat
  /\ InitCapture
  /\ sdId \in {NULL, <<"7">>}
  /\ sdDeps = NoDeps
  /\ sdLoading = TRUE
  /\ sdRefreshing = FALSE
  /\ sdSpace = NULL
  /\ sdSpaceN = 0
  /\ sdLogsN = 0
  /\ sdPatN = 0
  /\ sdSavePc = "idle"
  /\ sdDelPc = "idle"
  /\ sdEffectGets = 0

NextSpace ==
  \/ \E r \in StoreResults : loadToken_userToken(r)
  \/ \E r \in StoreResults : loadToken_userData(r)
  \/ SpaceDetailsScreen_useEffect
  \/ onRefresh
  \/ \E r \in FetchResults : fetchSpaceDetails_space(r)
  \/ \E r \in FetchResults : fetchSpaceDetails_logs(r)
  \/ \E r \in FetchResults : fetchSpaceDetails_patients(r)
  \/ \E ok \in BOOLEAN : handleSaveSpace(ok)
  \/ \E r \in FetchResults : handleSaveSpace_response(r)
  \/ \E c \in {"Cancel", "Delete"} : handleDeleteSpace(c)
  \/ \E r \in FetchResults : handleDeleteSpace_response(r)

SpecSpace == InitSpaceScreen /\ [][NextSpace]_vars

\* The app is opened on an assessment's screen, on top of the earlier
\* space screen of app/space/log.tsx.
InitLogScreen ==
  /\ InitAuth
  /\ route = LogRoute
  /\ InitHome
  /\ InitChat
  /\ InitCapture
  /\ sdId \in {NULL, <<"7">>}
  /\ sdDeps = NoDeps
  /\ sdLoading = TRUE
  /\ sdRefreshing = FALSE
  /\ sdSpace = NULL
  /\ sdSpaceN = 0
  /\ sdLogsN = 0
  /\ sdPatN = 0
  /\ sdSavePc = "idle"
  /\ sdDelPc = "idle"
  /\ sdEffectGets = 0
  /\ slDeps = NoDeps
  /\ slLoading = TRUE
  /\ slPc = "idle"
  /\ ldId \in {NULL, <<"9">>}
  /\ ldDeps = NoDeps
  /\ ldLoading = TRUE
  /\ ldPc = "idle"

NextLog ==
  \/ \E r \in StoreResults : loadToken_userToken(r)
  \/ \E r \in StoreResults : loadToken_userData(r)
  \/ fetchSpaceDetails0_useEffect
  \/ \E r \in FetchResults : fetchSpaceDetails0_space(r)
  \/ \E r \in FetchResults : fetchSpaceDetails0_logs(r)
  \/ fetchLogDetails_useEffect
  \/ \E r \in FetchResults : fetchLogDetails_response(r)

SpecLog == InitLogScreen /\ [][NextLog]_vars

\* The app is opened on the chat screen.
InitChatScreen ==
  /\ InitAuth
  /\ route = ChatRoute
  /\ InitHome
  /\ InitSpace
  /\ InitLog
  /\ InitChat
  /\ InitCapture

NextChat ==
  \/ \E r \in StoreResults : loadToken_userToken(r)
  \/ \E r \in StoreResults : loadToken_userData(r)
  \/ \E r \in StoreResults : ChatScreen_loadToken(r)
  \/ startNewConversation
  \/ onSend
  \/ onSuggestionPress
  \/ \E r \in FetchResults, h \in BOOLEAN : onSend_response(r, h)

SpecChat == InitChatScreen /\ [][NextChat]_vars

\* The app is opened on the capture screen; the link may lack the spaceId.
InitCaptureScreen ==
  /\ InitAuth
  /\ route = CaptureRoute
  /\ InitHome
  /\ InitSpace
  /\ InitLog
  /\ InitChat
  /\ capSpaceId \in {NULL, <<"7">>}
  /\ imageUri = NULL
  /\ uploading = FALSE
  /\ capPc = "idle"

NextCapture ==
  \/ \E r \in StoreResults : loadToken_userToken(r)
  \/ \E r \in StoreResults : loadToken_userData(r)
  \/ \E g \in BOOLEAN, c \in BOOLEAN : pickImageFromGallery(g, c)
  \/ \E c \in {"Cancel", "Continue Anyway"} : uploadImage(c)
  \/ \E r \in FetchResults : performUpload_response(r)

SpecCapture == InitCaptureScreen /\ [][NextCapture]_vars

----------------------------------------------------------------------------
(* Properties *)

InFlightSpace == sdSpaceN + sdLogsN + sdPatN

\* C1: every non-2xx response ends in a user-facing notice for that request:
\* the step that consumes a non-2xx response raises an alert (the chat
\* screen's error bubble is counted as one).
C1_Non2xxAlerted ==
  respNow.res \in Non2xx => (alertNow # {} \/ "error" \in msgNow)

\* C2: the login screen navigates to '/tabs' only in the step that completes
\* a successful signIn, and then the auth context holds a token and a user.
C2_TabsOnlyAfterSession ==
  [][(route' = "/tabs" /\ route # "/tabs")
       => /\ respNow' = [op |-> "setItem:userData", res |-> "ok"]
          /\ token' # NULL
          /\ user' # NULL]_vars

\* C3: every request to an endpoint other than /user/login and /user/register
\* carries 'Bearer <t>' with t the non-null token the auth context holds.
C3_BearerOfContextToken ==
  \A r \in sentNow :
    r.ep \notin {"/user/login", "/user/register"}
      => (token # NULL /\ r.auth = Bearer(token))

\* C4: on the space-details and log-details screens loading does not stay
\* true: once the session load is over, the effects have run for the current
\* id and token and no fetch is in flight, loading is false.
C4_LoadingClears ==
  (/\ loadPc = "done"
   /\ slDeps = <<sdId, token>> /\ slPc = "idle"
   /\ ldDeps = <<ldId, token>> /\ ldPc = "idle")
    => (~slLoading /\ ~ldLoading)

\* C5: the home screen has at most one request in flight, and its isLoading
\* flag is not false while a space or patient fetch is in flight.
C5_HomeSequential ==
  /\ fsN + fpN + (IF savePc = "wait" THEN 1 ELSE 0)
             + (IF delPc = "wait" THEN 1 ELSE 0) <= 1
  /\ (fsN + fpN > 0 => homeLoading)

\* C6: no retry: the step that handles a failed request (network error or
\* non-2xx) sends nothing, and every request is sent either by a user action
\* or an effect run, or by the continuation of a successful result.
C6_NoRetry ==
  /\ respNow.res \in Non2xx \cup {"neterr"} => sentNow = {}
  /\ sentNow # {} => \/ respNow.op \in {"press", "effect"}
                     \/ respNow.res \in {"ok", "ok_nojson"}

\* C6 witness: a failed GET /space/{id} has been handled with an alert and
\* nothing was sent again.
C6_Witness ==
  /\ respNow.op = "/space/{id}"
  /\ respNow.res \in Non2xx \cup {"neterr"}
  /\ alertNow # {}
  /\ sentNow = {}
  /\ InFlightSpace = 0

\* C7: the effect of SpaceDetailsScreen issues GET /space/{id} exactly once
\* per mount once id and token are available; the state the fetch sets does
\* not make the effect run again.
C7_FetchOncePerMount ==
  /\ sdEffectGets <= 1
  /\ (sdDeps = fetchSpaceDetailsDeps /\ token # NULL /\ sdId # NULL)
       => sdEffectGets = 1

\* C7 witness: the fetch of the mount has completed and set its state, and
\* the effect has nothing left to run.
C7_Witness ==
  /\ sdEffectGets = 1
  /\ sdSpace # NULL
  /\ ~sdLoading
  /\ InFlightSpace = 0
  /\ sdDeps = fetchSpaceDetailsDeps
  /\ respNow.op = "/patient"

\* C8: config.backendApiUrl is the base URL of every request sent.
C8_ConfigIsBaseUrl == \A r \in sentNow : r.base = backendApiUrl

\* C9: the index route redirects to the tabs flow when a stored session
\* (token and user) exists and to the login screen otherwise.
C9_IndexRedirectsBySession ==
  [][(route = "/" /\ route' # "/")
       => route' = IF store.userToken # NULL /\ store.userData # NULL
                     THEN "/tabs" ELSE "/(auth)/login"]_vars

SignInOps == {"/user/login", "/user/me", "setItem:userToken", "setItem:userData"}

\* C10: signIn is all-or-nothing: when it has failed, token, user, userToken
\* and userData are as they were before the call; when it has succeeded, all
\* four hold the new session.
C10_SignInAllOrNothing ==
  (respNow.op \in SignInOps /\ loginPc = "idle" /\ siAlone)
    => IF respNow = [op |-> "setItem:userData", res |-> "ok"]
         THEN /\ token # NULL
              /\ user = FormatUser(UserMe(token))
              /\ store.userToken = token
              /\ store.userData = JSONstringify(user)
         ELSE Snapshot(token, user, store) = siBefore

\* C11: whenever no auth operation is in progress the in-memory session
\* agrees with secure storage: token, user, userToken and userData are all
\* absent, or all present, equal, and of the same login.
C11_SessionAgreesWithStorage ==
  AuthOps = 0 =>
    \/ /\ token = NULL /\ user = NULL
       /\ store.userToken = NULL /\ store.userData = NULL
    \/ /\ token # NULL /\ user # NULL
       /\ store.userToken = token
       /\ store.userData # NULL
       /\ JSONparse(store.userData) = user
       /\ user[2] = token[2]

\* C12: signUp never changes token, user, userToken or userData: neither
\* the step that calls it nor the step that handles the response to
\* POST /user/register does, whether registration succeeds or fails.
C12_SignUpKeepsSession ==
  [][(suPc' # suPc \/ respNow'.op = "/user/register")
       => (token' = token /\ user' = user /\ store' = store)]_vars

\* C12 witness: a registration has succeeded and there is still no session.
C12_Witness ==
  /\ respNow.op = "/user/register"
  /\ respNow.res \in {"ok", "ok_nojson"}
  /\ suAlertOpen
  /\ token = NULL /\ user = NULL
  /\ store.userToken = NULL /\ store.userData = NULL

\* C13: when a confirmed sign-out ends, with the navigation to the login
\* screen, token and user are null and neither userToken nor userData is
\* left in secure storage, also when a deletion threw.
C13_SignedOutBeforeLogin ==
  [][(soPc # "idle" /\ soPc' = "idle")
       => /\ route' = "/(auth)/login"
          /\ token' = NULL /\ user' = NULL
          /\ store'.userToken = NULL /\ store'.userData = NULL]_vars

UpdateFailedAlert == "Failed to update profile. Please try again."

\* C14: updateUserInfo leaves the session untouched on every failure and the
\* caller sees the failure: with user or token null a validated Save sends
\* nothing and ends in the profile screen's failure alert; a failed PUT
\* (non-2xx or network) or a failed storage write leaves user and userData
\* as they were; the failure alert is raised and the edit mode is not left.
C14_UpdateFailureKeepsSession ==
  [][/\ (/\ route = "/tabs" /\ isEditing /\ respNow' = Trigger("press")
         /\ ~profErrors' /\ (user = NULL \/ token = NULL))
          => /\ sentNow' = {}
             /\ alertNow' = {UpdateFailedAlert}
             /\ upPc' = "idle"
             /\ UNCHANGED <<user, token, store, isEditing, isLoading>>
     /\ (\/ /\ respNow'.op = "PUT /user/{id}/update"
            /\ respNow'.res \in Non2xx \cup {"neterr"}
         \/ respNow' = [op |-> "setItem:userData(update)", res |-> "throw"])
          => /\ alertNow' = {UpdateFailedAlert}
             /\ sentNow' = {}
             /\ upPc' = "idle"
             /\ ~profLoading'
             /\ UNCHANGED <<user, token, store, isEditing>>]_vars

\* C14 witness: the storage write of an accepted update has thrown; the
\* failure alert is up, the form is still open and the session is whole.
C14_Witness ==
  /\ respNow = [op |-> "setItem:userData(update)", res |-> "throw"]
  /\ alertNow = {UpdateFailedAlert}
  /\ isEditing
  /\ token # NULL /\ user # NULL
  /\ store.userData = JSONstringify(user)
  /\ store.userToken = token

\* C15: isLoading is true exactly while at least one auth operation is in
\* progress.
C15_IsLoadingExact == isLoading <=> (AuthOps > 0)

C16_NonBlank(x) == \E k \in 1..Len(x) : x[k] # " "

C16_Count(x, c) == Cardinality({k \in 1..Len(x) : x[k] = c})

\* local@domain.tld without whitespace: one "@", text before it, and after
\* it text, a ".", and text.
C16_EmailOk(x) ==
  /\ C16_Count(x, " ") = 0
  /\ C16_Count(x, "@") = 1
  /\ LET at == CHOOSE k \in 1..Len(x) : x[k] = "@"
     IN /\ at > 1
        /\ \E d \in (at + 2)..(Len(x) - 1) : x[d] = "."

C16_UsernameOk(x) ==
  x # <<>> /\ {x[k] : k \in 1..Len(x)} \subseteq {"a", "7", "_"}

C16_FirstFailure(f) ==
  IF ~(/\ C16_NonBlank(f.firstName) /\ C16_NonBlank(f.lastName)
       /\ C16_NonBlank(f.username) /\ C16_NonBlank(f.email)
       /\ C16_NonBlank(f.password))
    THEN "Please fill in all required fields"
  ELSE IF ~C16_EmailOk(f.email) THEN "Please enter a valid email address"
  ELSE IF ~C16_UsernameOk(f.username)
    THEN "Username can only contain letters, numbers, and underscores"
  ELSE IF Len(f.password) < 6
    THEN "Password must be at least 6 characters long"
  ELSE "none"

SuccessAlert ==
  "Your account has been created! Please login with your credentials."

C18_NewChatStaysClear ==
  chatFresh => (messageHistory = <<>> /\ messages = <<"welcome">>)

\* C19: the history a request carries is the history returned by the latest
\* successful response of the current conversation (empty at its start), and
\* once every response has arrived messageHistory holds every answered
\* exchange of the conversation.
C19_HistoryFollowsExchanges ==
  /\ \A q \in chatReqs :
       (msgNow = {"user"} /\ q.id = chatSent) => q.hist = chatLastHist
  /\ chatReqs = {} =>
       chatDone \subseteq {messageHistory[k] : k \in 1..Len(messageHistory)}

====
